---- MODULE Spec2Model ----
(***************************************************************************)
(* A model of the seahorse command-line library: the builder of App        *)
(* (src/src/app.rs), the dispatcher App::run_with_result, the flag scan of *)
(* Context::new and the typed accessors of Context (src/src/context.rs).   *)
(*                                                                         *)
(* Strings are sequences of one-character strings, so that formatting a    *)
(* flag token ("--" + name), splitting a joined token at '=' and parsing a *)
(* number are computed character by character.                             *)
(*                                                                         *)
(* Flag, Command, normalized_args and the error types live in files that   *)
(* are not part of src/; they are modelled from spec.md, sections 3, 4.1   *)
(* and 4.3.                                                                *)
(***************************************************************************)
EXTENDS Integers, Sequences, FiniteSets, TLC

VARIABLES app, pc, argv, entry, result, help, calls, panicked

vars == <<app, pc, argv, entry, result, help, calls, panicked>>

(***************************************************************************)
(* Strings                                                                 *)
(***************************************************************************)

\* Option<T>: None, Some(x)
None == [some |-> FALSE, v |-> <<>>]

Some(x) == [some |-> TRUE, v |-> x]

\* s.starts_with(p)
starts_with(s, p) == Len(s) >= Len(p) /\ SubSeq(s, 1, Len(p)) = p

\* s.contains(c) for a character c
contains_char(s, c) == \E i \in 1..Len(s) : s[i] = c

\* v.contains(&x) for a vector v
contains(v, x) == \E i \in 1..Len(v) : v[i] = x

\* the least element of a set of positions; 0 when the set is empty
least(S) == IF S = {} THEN 0 ELSE CHOOSE i \in S : \A j \in S : i <= j

\* s.find(c): position (1-based) of the first c in s; 0 when there is none
find_char(s, c) == least({i \in 1..Len(s) : s[i] = c})

\* v.remove(index), index 1-based
remove(v, index) == SubSeq(v, 1, index - 1) \o SubSeq(v, index + 1, Len(v))

\* format!("--{}", name)
long_token(name) == <<"-", "-">> \o name

\* format!("-{}", a)
short_token(a) == <<"-">> \o a

Digit == {"0", "1", "2", "3", "4", "5", "6", "7", "8", "9"}

digit_value(c) ==
    CASE c = "0" -> 0 [] c = "1" -> 1 [] c = "2" -> 2 [] c = "3" -> 3
      [] c = "4" -> 4 [] c = "5" -> 5 [] c = "6" -> 6 [] c = "7" -> 7
      [] c = "8" -> 8 [] c = "9" -> 9

all_digits(s) == \A i \in 1..Len(s) : s[i] \in Digit

\* the number a string of digits denotes (0 for the empty string)
RECURSIVE digits_value(_)
digits_value(s) ==
    IF s = <<>> THEN 0
    ELSE 10 * digits_value(SubSeq(s, 1, Len(s) - 1)) + digit_value(s[Len(s)])

(***************************************************************************)
(* Argument normalisation (utils::normalized_args, called at app.rs:275;   *)
(* modelled from spec.md section 4.1 step 1 and section 4.3 step 1)        *)
(***************************************************************************)

\* the text before position i and the text after it
split_at(cur, i) == <<SubSeq(cur, 1, i - 1), SubSeq(cur, i + 1, Len(cur))>>

\* cur.splitn(2, '='): the text before the first '=' and the text after it
splitn2(cur) == split_at(cur, find_char(cur, "="))

\* a joined token: a flag token (leading '-') carrying "=value"
is_joined(cur) == starts_with(cur, <<"-">>) /\ contains_char(cur, "=")

RECURSIVE normalized_args(_)
normalized_args(raw_args) ==
    IF raw_args = <<>> THEN <<>>
    ELSE LET cur == Head(raw_args)
         IN  (IF is_joined(cur) THEN splitn2(cur) ELSE <<cur>>)
                 \o normalized_args(Tail(raw_args))

(***************************************************************************)
(* Flags (Flag, FlagType, FlagValue, FlagError; modelled from spec.md      *)
(* sections 3 and 4.1)                                                     *)
(***************************************************************************)

FlagType == {"Bool", "String", "Int", "Uint", "Float"}

FlagError == {"NotFound", "Undefined", "TypeError", "ValueTypeError"}

\* Result<_, _>
Ok(x) == [ok |-> TRUE, val |-> x]

Err(e) == [ok |-> FALSE, err |-> e]

\* FlagValue::Bool(b), ::String(s), ::Int(i), ::Uint(u), ::Float(f)
FlagValue(t, x) == [t |-> t, x |-> x]

\* Flag::new(name, flag_type), .alias(a)..., .multiple()
Flag(name, flag_type, alias, multiple) ==
    [name |-> name, flag_type |-> flag_type, alias |-> alias, multiple |-> multiple]

\* the token an alias is written as: -x for one character, --alias otherwise
alias_token(a) == IF Len(a) = 1 THEN short_token(a) ELSE long_token(a)

\* whether token r is an occurrence of the flag (exact match only)
flag_matches(flag, r) ==
    \/ r = long_token(flag.name)
    \/ \E k \in 1..Len(flag.alias) : r = alias_token(flag.alias[k])

\* Flag::option_index: position (1-based) of the first occurrence; 0 is None
option_index(flag, v) == least({i \in 1..Len(v) : flag_matches(flag, v[i])})

\* the sign character a numeric string starts with, "" when it has none
sign_of(s) == IF s # <<>> /\ s[1] \in {"+", "-"} THEN s[1] ELSE ""

\* the string without its sign character
unsigned(s) == IF s # <<>> /\ s[1] \in {"+", "-"} THEN Tail(s) ELSE s

\* str::parse::<isize>: an optional sign and one or more digits
isize_of(sign, body) ==
    IF body # <<>> /\ all_digits(body)
    THEN Ok(IF sign = "-" THEN 0 - digits_value(body) ELSE digits_value(body))
    ELSE Err("ValueTypeError")

parse_isize(s) == isize_of(sign_of(s), unsigned(s))

\* str::parse::<usize>: an optional '+' and one or more digits
usize_of(sign, body) ==
    IF sign # "-" /\ body # <<>> /\ all_digits(body)
    THEN Ok(digits_value(body))
    ELSE Err("ValueTypeError")

parse_usize(s) == usize_of(sign_of(s), unsigned(s))

\* a decimal m * 10^(-e) without trailing zeros in its fraction
RECURSIVE decimal(_, _)
decimal(m, e) ==
    IF e > 0 /\ m % 10 = 0 THEN decimal(m \div 10, e - 1) ELSE [m |-> m, e |-> e]

\* str::parse::<f64> on decimal notation: [sign] digits [. digits] or
\* [sign] . digits (exponents, inf and nan are outside the tokens modelled)
f64_of(sign, ip, fp) ==
    IF all_digits(ip) /\ all_digits(fp) /\ ip \o fp # <<>>
    THEN Ok(decimal((IF sign = "-" THEN 0 - 1 ELSE 1) * digits_value(ip \o fp), Len(fp)))
    ELSE Err("ValueTypeError")

f64_split(sign, body, dot) ==
    IF dot = 0 THEN f64_of(sign, body, <<>>)
    ELSE f64_of(sign, SubSeq(body, 1, dot - 1), SubSeq(body, dot + 1, Len(body)))

f64_body(sign, body) == f64_split(sign, body, find_char(body, "."))

parse_f64(s) == f64_body(sign_of(s), unsigned(s))

\* the FlagValue of the declared type around a parsed number
coerced(flag_type, parsed) ==
    IF parsed.ok THEN Ok(FlagValue(flag_type, parsed.val)) ELSE parsed

\* Flag::value: coerce the raw value (an Option<String>) to the declared type
value(flag, v) ==
    IF flag.flag_type = "Bool" THEN Ok(FlagValue("Bool", TRUE))
    ELSE IF ~v.some THEN Err("NotFound")
    ELSE IF flag.flag_type = "String" THEN Ok(FlagValue("String", v.v))
    ELSE coerced(flag.flag_type,
                 CASE flag.flag_type = "Int"   -> parse_isize(v.v)
                   [] flag.flag_type = "Uint"  -> parse_usize(v.v)
                   [] flag.flag_type = "Float" -> parse_f64(v.v))

(***************************************************************************)
(* Context (src/src/context.rs)                                            *)
(***************************************************************************)

RECURSIVE scan_flag(_, _, _, _)

\* context.rs:39-42: push the outcome; a flag that is not multiple is done
scan_pushed(flag, rest, pushed) ==
    IF ~flag.multiple
    THEN [args |-> rest, v |-> pushed]
    ELSE scan_flag(flag, rest, pushed, TRUE)

\* a faulty bound, one past the end: the last token is never taken as a
\* value (SingleAppFlags rejects it)
takes_value_before_last(flag, removed, index) ==
    flag.flag_type # "Bool" /\ ~(Len(removed) <= index)

\* a faulty test that does not take a token written like a flag as a value
\* (ConsumesFollower rejects it)
takes_plain_value(flag, removed, index) ==
    /\ flag.flag_type # "Bool"
    /\ ~(Len(removed) <= index - 1)
    /\ ~starts_with(removed[index], <<"-">>)

\* context.rs:30-38: the raw value of an occurrence whose token was removed
\* at index: the token now at index, unless the flag is Bool or none is left
takes_value(flag, removed, index) ==
    flag.flag_type # "Bool" /\ ~(Len(removed) <= index - 1)

\* a faulty turn that reads the value and leaves its token among the
\* arguments (PositionalArgs rejects it)
scan_found_keeping(flag, removed, v, index) ==
    IF takes_value(flag, removed, index)
    THEN scan_pushed(flag, removed,
                     Append(v, <<flag.name, value(flag, Some(removed[index]))>>))
    ELSE scan_pushed(flag, removed, Append(v, <<flag.name, value(flag, None)>>))

scan_found(flag, removed, v, index) ==
    IF takes_value(flag, removed, index)
    THEN scan_pushed(flag, remove(removed, index),
                     Append(v, <<flag.name, value(flag, Some(removed[index]))>>))
    ELSE scan_pushed(flag, removed, Append(v, <<flag.name, value(flag, None)>>))

\* a faulty turn of the loop that records nothing for a flag that is not
\* found (MissingIsNotFound rejects it)
scan_at_silent(flag, parsed_args, v, found_flag, index) ==
    IF index # 0
    THEN scan_found(flag, remove(parsed_args, index), v, index)
    ELSE [args |-> parsed_args, v |-> v]

\* a faulty turn of the loop that records NotFound whenever the search ends,
\* also after occurrences were found (MultipleOutcomes rejects it)
scan_at_appending(flag, parsed_args, v, found_flag, index) ==
    IF index # 0
    THEN scan_found(flag, remove(parsed_args, index), v, index)
    ELSE [args |-> parsed_args, v |-> Append(v, <<flag.name, Err("NotFound")>>)]

\* context.rs:26-48: one turn of the loop, index being flag.option_index
scan_at(flag, parsed_args, v, found_flag, index) ==
    IF index # 0
    THEN scan_found(flag, remove(parsed_args, index), v, index)
    ELSE [args |-> parsed_args,
          v    |-> IF ~found_flag \/ ~flag.multiple
                   THEN Append(v, <<flag.name, Err("NotFound")>>)
                   ELSE v]

\* the loop of Context::new for one flag: parsed_args and v are the token
\* list and the outcomes so far
scan_flag(flag, parsed_args, v, found_flag) ==
    scan_at(flag, parsed_args, v, found_flag, option_index(flag, parsed_args))

RECURSIVE scan_flags(_, _, _)

scan_next(flags, one) == scan_flags(flags, one.args, one.v)

\* the for loop of Context::new over the declared flags
scan_flags(flags, parsed_args, v) ==
    IF flags = <<>> THEN [args |-> parsed_args, v |-> v]
    ELSE scan_next(Tail(flags), scan_flag(Head(flags), parsed_args, v, FALSE))

\* the Context built from the scan: context.rs:56-60
context_of(scanned) == [args |-> scanned.args, flags |-> Some(scanned.v)]

\* Context::new(args, flags, help_text); flags is an Option<Vec<Flag>>
Context_new(args, flags) ==
    IF flags.some
    THEN context_of(scan_flags(flags.v, args, <<>>))
    ELSE [args |-> args, flags |-> None]

\* the outcomes recorded: self.flags, empty when it is None
recorded(c) == IF c.flags.some THEN c.flags.v ELSE <<>>

\* a faulty lookup that reports a name with no outcome as NotFound
\* (UndeclaredIsUndefined rejects it)
outcome_absent(v, i) == IF i = 0 THEN Err("NotFound") ELSE v[i][2]

\* context.rs:70-76: the outcome found, Undefined when there is none
outcome_at(v, i) == IF i = 0 THEN Err("Undefined") ELSE v[i][2]

first_named(v, name) == outcome_at(v, least({i \in 1..Len(v) : v[i][1] = name}))

\* Context::result_flag_value: the first outcome recorded under the name
result_flag_value(c, name) == first_named(recorded(c), name)

\* the outcomes of a vector-valued accessor, or the abort of a failed unwrap
Returned(x) == [panic |-> FALSE, vec |-> x]

Panic == [panic |-> TRUE, vec |-> <<>>]

RECURSIVE filter_name(_, _)
filter_name(v, name) ==
    IF v = <<>> THEN <<>>
    ELSE (IF Head(v)[1] = name THEN <<Head(v)[2]>> ELSE <<>>)
             \o filter_name(Tail(v), name)

\* Context::result_flag_value_vec: every outcome recorded under the name;
\* self.flags.as_ref().unwrap() aborts when the scope declared no flag
result_flag_value_vec(c, name) ==
    IF ~c.flags.some THEN Panic
    ELSE Returned(filter_name(c.flags.v, name))

\* a faulty bool_flag, true for every flag that has a value (BoolFlagReads
\* rejects it)
bool_flag_found(c, name) == result_flag_value(c, name).ok

\* Context::bool_flag
bool_flag(c, name) ==
    LET r == result_flag_value(c, name)
    IN  IF r.ok THEN (IF r.val.t = "Bool" THEN r.val.x ELSE FALSE) ELSE FALSE

\* a faulty body that reports every read without a value of the requested
\* type as TypeError, the flag's own error included (WrongTypeReads rejects
\* it)
typed_flag_masking(c, name, t) ==
    LET r == result_flag_value(c, name)
    IN  IF r.ok /\ r.val.t = t THEN Ok(r.val.x) ELSE Err("TypeError")

\* the body shared by string_flag, int_flag, uint_flag and float_flag
typed_flag(c, name, t) ==
    LET r == result_flag_value(c, name)
    IN  IF ~r.ok THEN r
        ELSE IF r.val.t = t THEN Ok(r.val.x) ELSE Err("TypeError")

string_flag(c, name) == typed_flag(c, name, "String")

int_flag(c, name) == typed_flag(c, name, "Int")

uint_flag(c, name) == typed_flag(c, name, "Uint")

float_flag(c, name) == typed_flag(c, name, "Float")

\* the map shared by the *_flag_vec accessors: a value of the requested
\* type, NotFound, and TypeError for everything else
typed_outcome(r, t) ==
    IF r.ok THEN (IF r.val.t = t THEN Ok(r.val.x) ELSE Err("TypeError"))
    ELSE IF r.err = "NotFound" THEN Err("NotFound")
    ELSE Err("TypeError")

typed_flag_vec(c, name, t) ==
    LET r == result_flag_value_vec(c, name)
    IN  IF r.panic THEN Panic
        ELSE Returned([i \in 1..Len(r.vec) |-> typed_outcome(r.vec[i], t)])

bool_flag_vec(c, name) == typed_flag_vec(c, name, "Bool")

string_flag_vec(c, name) == typed_flag_vec(c, name, "String")

int_flag_vec(c, name) == typed_flag_vec(c, name, "Int")

uint_flag_vec(c, name) == typed_flag_vec(c, name, "Uint")

float_flag_vec(c, name) == typed_flag_vec(c, name, "Float")

(***************************************************************************)
(* Commands and dispatch (src/src/app.rs; Command is modelled from         *)
(* spec.md sections 3 and 4.3)                                             *)
(***************************************************************************)

\* the help flag tokens "-h" and "--help"
help_short == <<"-", "h">>

help_long == <<"-", "-", "h", "e", "l", "p">>

\* Result<(), Box<dyn Error>>: Ok(()), an ActionError, an action's own error
Unit == <<>>

ActionError_NotFound == Err("ActionError::NotFound")

\* what a result-returning callback returns: the closures of the tests of
\* app.rs return Ok(()) or Err(Box::new(Error)), Error displayed "test error"
action_returns(callback) ==
    IF callback = "result_err" THEN Err("test error") ELSE Ok(Unit)

\* Command::new(name), .alias(a)..., .action / .action_with_result, .flag, .command
Command(name, alias, action, action_with_result, flags, commands) ==
    [name |-> name, alias |-> alias, action |-> action,
     action_with_result |-> action_with_result, flags |-> flags,
     commands |-> commands]

\* a faulty closure that compares the name only (AliasDispatch rejects it)
command_named(command, cmd) == command.name = cmd

\* the closure of select_command: the name or one of the aliases equals cmd
command_matches(command, cmd) ==
    \/ command.name = cmd
    \/ \E k \in 1..Len(command.alias) : command.alias[k] = cmd

\* the commands registered on a node: self.commands, empty when it is None
commands_of(self) == IF self.commands.some THEN self.commands.v ELSE <<>>

command_at(v, i) == IF i = 0 THEN None ELSE Some(v[i])

\* a faulty search that keeps the last registered command that matches
\* (FirstMatchWins rejects it)
last_matching(v, cmd) ==
    LET M == {i \in 1..Len(v) : command_matches(v[i], cmd)}
    IN  command_at(v, IF M = {} THEN 0 ELSE CHOOSE i \in M : \A j \in M : j <= i)

first_matching(v, cmd) ==
    command_at(v, least({i \in 1..Len(v) : command_matches(v[i], cmd)}))

\* App::select_command: the first registered command that matches
select_command(self, cmd) == first_matching(commands_of(self), cmd)

\* the outcome of one dispatch: the value returned, the nodes whose help was
\* printed, the callbacks invoked with the Context each received, and
\* whether the call aborted instead of returning
Outcome(returned, help_of, invoked) ==
    [result |-> returned, help |-> help_of, calls |-> invoked, panic |-> FALSE]

Aborted == [result |-> Err("panic"), help |-> <<>>, calls |-> <<>>, panic |-> TRUE]

HelpOf(kind, self) == <<[node |-> kind, name |-> self.name]>>

Invoke(callback, c) == <<[callback |-> callback, c |-> c]>>

\* a faulty help test that knows "--help" only (HelpBypassesAction rejects it)
wants_long_help(args) == contains(args, help_long)

\* args.contains("-h") || args.contains("--help")
wants_help(args) == contains(args, help_short) \/ contains(args, help_long)

\* a faulty arm that gives up when the scan recorded an error
\* (ErrorsNeverAbort rejects it)
help_or_invoke_strict(kind, self, all, rest, callback, returned) ==
    IF wants_help(all)
    THEN Outcome(Ok(Unit), HelpOf(kind, self), <<>>)
    ELSE IF \E i \in 1..Len(Context_new(rest, self.flags).flags.v) :
                ~Context_new(rest, self.flags).flags.v[i][2].ok
    THEN Outcome(Err("flag error"), <<>>, <<>>)
    ELSE Outcome(returned, <<>>, Invoke(callback, Context_new(rest, self.flags)))

\* app.rs:295-304 and 308-317: help when a help flag is present, else the
\* callback on a Context built from the tokens after the program name
help_or_invoke(kind, self, all, rest, callback, returned) ==
    IF wants_help(all)
    THEN Outcome(Ok(Unit), HelpOf(kind, self), <<>>)
    ELSE Outcome(returned, <<>>, Invoke(callback, Context_new(rest, self.flags)))

\* a faulty match that drops what the result action returned
\* (ResultPropagates rejects it)
run_action_swallowing(kind, self, all, rest) ==
    IF self.action.some
    THEN help_or_invoke(kind, self, all, rest, self.action.v, Ok(Unit))
    ELSE IF self.action_with_result.some
    THEN help_or_invoke(kind, self, all, rest, self.action_with_result.v, Ok(Unit))
    ELSE Outcome(Ok(Unit), HelpOf(kind, self), <<>>)

\* a faulty match whose last arm fails with ActionError::NotFound
\* (NoActionShowsHelp rejects it)
run_action_failing(kind, self, all, rest) ==
    IF self.action.some
    THEN help_or_invoke(kind, self, all, rest, self.action.v, Ok(Unit))
    ELSE IF self.action_with_result.some
    THEN help_or_invoke(kind, self, all, rest, self.action_with_result.v,
                        action_returns(self.action_with_result.v))
    ELSE Outcome(ActionError_NotFound, HelpOf(kind, self), <<>>)

\* app.rs:293-324: the match on self.action and self.action_with_result;
\* all is the vector searched for a help flag, rest the tokens handed to
\* Context::new
run_action(kind, self, all, rest) ==
    IF self.action.some
    THEN help_or_invoke(kind, self, all, rest, self.action.v, Ok(Unit))
    ELSE IF self.action_with_result.some
    THEN help_or_invoke(kind, self, all, rest, self.action_with_result.v,
                        action_returns(self.action_with_result.v))
    ELSE Outcome(Ok(Unit), HelpOf(kind, self), <<>>)

RECURSIVE Command_run_with_result(_, _)

\* spec.md section 4.3 steps 4 to 6 on a command
Command_resolve(self, args, sel) ==
    IF sel.some THEN Command_run_with_result(sel.v, Tail(args))
    ELSE IF args # <<>> /\ ~wants_help(args)
              /\ ~self.action.some /\ ~self.action_with_result.some
    THEN Outcome(ActionError_NotFound, HelpOf("Command", self), <<>>)
    ELSE run_action("Command", self, args, args)

Command_split(self, args) ==
    Command_resolve(self, args,
                    IF args = <<>> THEN None ELSE select_command(self, Head(args)))

\* Command::run_with_result (spec.md section 4.3): resolve the leading token
\* among the children, else run this node's action on the whole vector
Command_run_with_result(self, raw_args) ==
    Command_split(self, normalized_args(raw_args))

\* app.rs:291-325: the match on self.select_command(cmd)
App_resolve(self, args, args_v, sel) ==
    IF sel.some THEN Command_run_with_result(sel.v, args_v)
    ELSE run_action("App", self, args, Tail(args))

\* app.rs:276-289: the split into cmd_v and args_v, and the empty cmd_v
App_split(self, args, cmd_v, args_v) ==
    IF cmd_v = <<>>
    THEN Outcome(ActionError_NotFound, HelpOf("App", self), <<>>)
    ELSE App_resolve(self, args, args_v, select_command(self, cmd_v[1]))

\* app.rs:276-279 on the normalized vector; args[1..] of an empty vector is
\* out of range
App_dispatch(self, args) ==
    IF args = <<>> THEN Aborted
    ELSE IF Len(args) = 1
    THEN App_split(self, args, SubSeq(args, 1, 1), <<>>)
    ELSE App_split(self, args, SubSeq(args, 2, 2), SubSeq(args, 3, Len(args)))

\* a faulty entry that dispatches the raw vector, joined tokens unsplit
\* (EqualNotation rejects it)
App_run_raw(self, raw_args) == App_dispatch(self, raw_args)

\* App::run_with_result
App_run_with_result(self, raw_args) == App_dispatch(self, normalized_args(raw_args))

\* the number of commands registered on a node
registered(self) == IF self.commands.some THEN Len(self.commands.v) ELSE 0

\* App::new(name)
App_new(name) ==
    [name |-> name, commands |-> None, action |-> None,
     action_with_result |-> None, flags |-> None]

(***************************************************************************)
(* The builder and the two entry points, as actions                        *)
(***************************************************************************)

\* the state of App::new(name): nothing has run yet
NotRun ==
    /\ argv = <<>>
    /\ entry = "none"
    /\ result = Ok(Unit)
    /\ help = <<>>
    /\ calls = <<>>

\* a faulty App::command that registers whatever it is given
\* (UniqueNames rejects it)
command_unchecked(c) ==
    /\ pc = "build"
    /\ app' = [app EXCEPT !.commands = Some(Append(commands_of(app), c))]
    /\ UNCHANGED <<pc, panicked, argv, entry, result, help, calls>>

\* App::command(command): a command named like a registered one is refused
command(c) ==
    /\ pc = "build"
    /\ IF app.commands.some
       THEN IF \E i \in 1..Len(app.commands.v) : app.commands.v[i].name = c.name
            THEN /\ panicked' = TRUE
                 /\ pc' = "aborted"
                 /\ app' = app
            ELSE /\ app' = [app EXCEPT !.commands = Some(Append(app.commands.v, c))]
                 /\ UNCHANGED <<pc, panicked>>
       ELSE /\ app' = [app EXCEPT !.commands = Some(<<c>>)]
            /\ UNCHANGED <<pc, panicked>>
    /\ UNCHANGED <<argv, entry, result, help, calls>>

\* a faulty App::action that does not look at action_with_result
\* (OneActionKind rejects it)
action_unchecked(a) ==
    /\ pc = "build"
    /\ app' = [app EXCEPT !.action = Some(a)]
    /\ UNCHANGED <<pc, panicked, argv, entry, result, help, calls>>

\* App::action(action)
action(a) ==
    /\ pc = "build"
    /\ IF app.action_with_result.some
       THEN /\ panicked' = TRUE
            /\ pc' = "aborted"
            /\ app' = app
       ELSE /\ app' = [app EXCEPT !.action = Some(a)]
            /\ UNCHANGED <<pc, panicked>>
    /\ UNCHANGED <<argv, entry, result, help, calls>>

\* App::action_with_result(action_with_result)
action_with_result(a) ==
    /\ pc = "build"
    /\ IF app.action.some
       THEN /\ panicked' = TRUE
            /\ pc' = "aborted"
            /\ app' = app
       ELSE /\ app' = [app EXCEPT !.action_with_result = Some(a)]
            /\ UNCHANGED <<pc, panicked>>
    /\ UNCHANGED <<argv, entry, result, help, calls>>

\* App::flag(flag)
flag(f) ==
    /\ pc = "build"
    /\ app' = [app EXCEPT !.flags = IF app.flags.some
                                    THEN Some(Append(app.flags.v, f))
                                    ELSE Some(<<f>>)]
    /\ UNCHANGED <<pc, panicked, argv, entry, result, help, calls>>

\* what an entry point leaves behind once the dispatch has returned;
\* unwinds tells whether the entry point itself aborts on the outcome
Dispatched(name, args, out, unwinds) ==
    /\ pc' = "done"
    /\ argv' = args
    /\ entry' = name
    /\ result' = out.result
    /\ help' = out.help
    /\ calls' = out.calls
    /\ panicked' = (out.panic \/ unwinds)
    /\ app' = app

\* the match of App::run: Ok(_) => return, Err(e) => panic!("{}", e)
run_match(name, args, out) == Dispatched(name, args, out, ~out.result.ok)

\* App::run_with_result(args): the failure is handed to the caller
run_with_result(args) ==
    /\ pc = "build"
    /\ Dispatched("run_with_result", args, App_run_with_result(app, args), FALSE)

\* App::run(args)
run(args) ==
    /\ pc = "build"
    /\ run_match("run", args, App_run_with_result(app, args))

(***************************************************************************)
(* Names, tokens and declarations the specifications draw from             *)
(***************************************************************************)

s_test == <<"t", "e", "s", "t">>

s_hello == <<"h", "e", "l", "l", "o">>

s_args == <<"a", "r", "g", "s">>

s_h == <<"h">>

s_x == <<"x">>

s_b == <<"b">>

s_i == <<"i">>

s_s == <<"s">>

s_bool == <<"b", "o", "o", "l">>

s_string == <<"s", "t", "r", "i", "n", "g">>

s_int == <<"i", "n", "t">>

s_float == <<"f", "l", "o", "a", "t">>

s_nope == <<"n", "o", "p", "e">>

\* value tokens: "42", "-7", "3.5", "a=b" and "-s=x"
s_42 == <<"4", "2">>

s_minus7 == <<"-", "7">>

s_3_5 == <<"3", ".", "5">>

s_a_eq_b == <<"a", "=", "b">>

s_s_eq_x == <<"-", "s", "=", "x">>

\* the callbacks registered: plain actions and result-returning actions
PlainActions == {"action", "other_action"}

ResultActions == {"result_ok", "result_err"}

\* the flags of the tests of app.rs: Flag::new("bool", FlagType::Bool), ...
flag_bool == Flag(s_bool, "Bool", <<>>, FALSE)

flag_string == Flag(s_string, "String", <<>>, FALSE)

flag_int == Flag(s_int, "Int", <<>>, FALSE)

flag_float == Flag(s_float, "Float", <<>>, FALSE)

\* flags with an alias, and a flag that may be repeated (context_test)
flag_bool_b == Flag(s_bool, "Bool", <<s_b>>, FALSE)

flag_string_s == Flag(s_string, "String", <<s_s>>, FALSE)

flag_int_multiple == Flag(s_int, "Int", <<s_i>>, TRUE)

\* commands shaped after the tests of app.rs: hello with alias h, an action
\* and a flag; hello with a failing result action; a command named h; a
\* command named like the program; a command with no action and a child
cmd_hello ==
    Command(s_hello, <<s_h>>, Some("action"), None, Some(<<flag_bool>>), None)

cmd_hello_err == Command(s_hello, <<>>, None, Some("result_err"), None, None)

cmd_h == Command(s_h, <<>>, None, Some("result_ok"), None, None)

cmd_test == Command(s_test, <<>>, None, Some("result_err"), None, None)

cmd_x == Command(s_x, <<>>, None, None, None, Some(<<cmd_hello_err>>))

Commands == {cmd_hello, cmd_hello_err, cmd_h, cmd_test, cmd_x}

\* all sequences over S of length at most n
RECURSIVE SeqsUpTo(_, _)
SeqsUpTo(S, n) ==
    IF n = 0 THEN {<<>>}
    ELSE LET shorter == SeqsUpTo(S, n - 1)
         IN  shorter \cup {Append(t, x) : t \in {u \in shorter : Len(u) = n - 1}, x \in S}

\* every order in which the sequences of G can be concatenated
RECURSIVE Orders(_)
Orders(G) ==
    IF G = {} THEN {<<>>}
    ELSE UNION {{g \o r : r \in Orders(G \ {g})} : g \in G}

\* the flags declared on a node: self.flags, empty when it is None
declared(self) == IF self.flags.some THEN self.flags.v ELSE <<>>

\* the flags of U the builder may still declare: names are unique within a
\* scope (spec.md section 3), and at most n flags are declared
Declarable(self, U, n) ==
    {f \in U : /\ Len(declared(self)) < n
               /\ \A k \in 1..Len(declared(self)) : declared(self)[k].name # f.name}

\* the tokens a flag is written as
tokens_of(f) ==
    {long_token(f.name)} \cup {alias_token(f.alias[k]) : k \in 1..Len(f.alias)}

FlagTokens(flags) == UNION {tokens_of(flags[k]) : k \in 1..Len(flags)}

\* an app with a plain action: App::new("test").action(action)
App_with_action == [App_new(s_test) EXCEPT !.action = Some("action")]

(***************************************************************************)
(* Spec: the builder of App and the dispatch of one argument vector        *)
(***************************************************************************)

\* the number of App::command calls of a run of the builder
MaxCommands == 2

\* the number of tokens that follow the leading token
MaxRest == 2

LeadTokens == {s_hello, s_h, s_x, s_test, help_long, long_token(s_bool)}

RestTokens == {s_hello, help_short, long_token(s_bool)}

\* argument vectors: nothing, the program name alone, or the program name,
\* a leading token and up to MaxRest further tokens
Argvs ==
    {<<>>, <<s_test>>}
        \cup {<<s_test, l>> \o r : l \in LeadTokens, r \in SeqsUpTo(RestTokens, MaxRest)}

Init ==
    /\ app = App_new(s_test)
    /\ pc = "build"
    /\ panicked = FALSE
    /\ NotRun

Next ==
    \/ \E c \in {d \in Commands : registered(app) < MaxCommands} : command(c)
    \/ \E a \in PlainActions : action(a)
    \/ \E a \in ResultActions : action_with_result(a)
    \/ \E args \in Argvs : run_with_result(args)
    \/ \E args \in Argvs : run(args)

Spec == Init /\ [][Next]_vars

(***************************************************************************)
(* SpecFlags: the flag scan of Context::new over every short argument      *)
(* vector made of the tokens of the declared flags, the value 42 and the   *)
(* token of a flag that is not declared                                    *)
(***************************************************************************)

FlagUniverse == {flag_bool_b, flag_string, flag_int_multiple}

\* the number of App::flag calls of a run of the builder
MaxFlags == 2

\* the number of tokens after the program name
MaxArgs == 4

FlagArgvs(self) ==
    {<<s_test>> \o r :
        r \in SeqsUpTo(FlagTokens(declared(self)) \cup {s_42, long_token(s_nope)},
                       MaxArgs)}

InitFlags ==
    /\ app = App_with_action
    /\ pc = "build"
    /\ panicked = FALSE
    /\ NotRun

NextFlags ==
    \/ pc = "build" /\ \E f \in Declarable(app, FlagUniverse, MaxFlags) : flag(f)
    \/ pc = "build" /\ \E args \in FlagArgvs(app) : run_with_result(args)

SpecFlags == InitFlags /\ [][NextFlags]_vars

(***************************************************************************)
(* SpecScan: the same scan over shorter vectors that also hold a word,     *)
(* which is no number and no token of a flag                               *)
(***************************************************************************)

\* the number of tokens after the program name
MaxScanArgs == 3

ScanArgvs(self) ==
    {<<s_test>> \o r :
        r \in SeqsUpTo(FlagTokens(declared(self)) \cup {s_42, s_x}, MaxScanArgs)}

NextScan ==
    \/ pc = "build" /\ \E f \in Declarable(app, FlagUniverse, MaxFlags) : flag(f)
    \/ pc = "build" /\ \E args \in ScanArgvs(app) : run_with_result(args)

SpecScan == InitFlags /\ [][NextScan]_vars

(***************************************************************************)
(* SpecSingle: the app of single_app_test, its four flags declared in any  *)
(* order, run on every vector in which each declared flag appears once,    *)
(* followed by a value unless it is Bool, among positional tokens          *)
(***************************************************************************)

TestFlags == {flag_bool, flag_string, flag_int, flag_float}

\* the number of positional tokens of a vector
MaxPositional == 1

Positionals == <<s_args, s_hello, s_h>>

\* well-formed values of a type
ValuesOf(flag_type) ==
    CASE flag_type = "Bool"   -> {}
      [] flag_type = "String" -> {s_x}
      [] flag_type = "Int"    -> {s_42, s_minus7}
      [] flag_type = "Uint"   -> {s_42}
      [] flag_type = "Float"  -> {s_3_5, s_minus7}

\* the ways one flag can be supplied: its token, and a value unless Bool
Supplied(f) ==
    IF f.flag_type = "Bool" THEN {<<long_token(f.name)>>}
    ELSE {<<long_token(f.name), x>> : x \in ValuesOf(f.flag_type)}

\* one way of supplying each of the declared flags
Supplies(flags) ==
    {pick \in [1..Len(flags) -> UNION {Supplied(flags[k]) : k \in 1..Len(flags)}] :
        \A k \in 1..Len(flags) : pick[k] \in Supplied(flags[k])}

SingleArgvs(self) ==
    {<<s_test>> \o r :
        r \in UNION {Orders({pick[k] : k \in 1..Len(declared(self))}
                              \cup {<<Positionals[k]>> : k \in 1..n}) :
                        pick \in Supplies(declared(self)), n \in 0..MaxPositional}}

NextSingle ==
    \/ pc = "build" /\ \E f \in Declarable(app, TestFlags, Cardinality(TestFlags)) : flag(f)
    \/ pc = "build" /\ \E args \in SingleArgvs(app) : run_with_result(args)

SpecSingle == InitFlags /\ [][NextSingle]_vars

(***************************************************************************)
(* SpecEqual: the joined notation of single_app_equal_notation_test: every *)
(* short vector of joined tokens of the declared flags                     *)
(***************************************************************************)

EqualFlags == {flag_bool, flag_string_s, flag_int}

EqualValues == {s_42, s_a_eq_b, s_s_eq_x}

\* the number of tokens after the program name
MaxJoined == 2

\* format!("{}={}", token, x)
joined(token, x) == token \o <<"=">> \o x

JoinedTokens(flags) == {joined(t, x) : t \in FlagTokens(flags), x \in EqualValues}

EqualArgvs(self) ==
    {<<s_test>> \o r :
        r \in SeqsUpTo(JoinedTokens(declared(self)) \cup {s_x}, MaxJoined)}

NextEqual ==
    \/ pc = "build" /\ \E f \in Declarable(app, EqualFlags, Cardinality(EqualFlags)) : flag(f)
    \/ pc = "build" /\ \E args \in EqualArgvs(app) : run_with_result(args)

SpecEqual == InitFlags /\ [][NextEqual]_vars

(***************************************************************************)
(* Properties of the dispatch, under Spec                                  *)
(***************************************************************************)

\* the leading token of the run: the token after the program name, and the
\* program name itself when the vector has one token (app.rs:276-279)
lead == IF Len(argv) = 1 THEN argv[1] ELSE argv[2]

\* token t is the name or an alias of the i-th registered command
names_command(i, t) ==
    \/ app.commands.v[i].name = t
    \/ \E k \in 1..Len(app.commands.v[i].alias) : app.commands.v[i].alias[k] = t

no_command_named(t) == \A i \in 1..registered(app) : ~names_command(i, t)

\* the help of the app was printed, and nothing else
app_help == <<[node |-> "App", name |-> app.name]>>

has_help_token == \E i \in 1..Len(argv) : argv[i] \in {help_short, help_long}

\* the i-th registered command is named hello and has the alias h
hello_with_alias_h(i) ==
    /\ app.commands.v[i].name = s_hello
    /\ \E k \in 1..Len(app.commands.v[i].alias) : app.commands.v[i].alias[k] = s_h

\* the run that differs from the one made in the leading token only: h for
\* hello and hello for h
other_lead == [argv EXCEPT ![2] = IF argv[2] = s_h THEN s_hello ELSE s_h]

same_dispatch(out) ==
    /\ result = out.result
    /\ help = out.help
    /\ calls = out.calls

\* C5, as stated: whenever a command named hello with alias h is registered,
\* a run led by h and the run led by hello on the same remainder have the
\* same outcome, print the same help and invoke the same callback on the
\* same Context.
AliasDispatchAlways ==
    (/\ pc = "done"
     /\ Len(argv) >= 2
     /\ argv[2] \in {s_h, s_hello}
     /\ \E i \in 1..registered(app) : hello_with_alias_h(i))
        => same_dispatch(App_run_with_result(app, other_lead))

\* C5, amended: the two runs dispatch alike, and both to the command hello,
\* provided no command registered before it is named hello or h or has one
\* of the two as an alias (the first match in registration order is run).
AliasDispatch ==
    \A i \in 1..registered(app) :
        (/\ pc = "done"
         /\ Len(argv) >= 2
         /\ argv[2] \in {s_h, s_hello}
         /\ hello_with_alias_h(i)
         /\ \A j \in 1..(i - 1) : ~names_command(j, s_h) /\ ~names_command(j, s_hello))
            => /\ same_dispatch(App_run_with_result(app, other_lead))
               /\ \/ help = <<[node |-> "Command", name |-> s_hello]>> /\ calls = <<>>
                  \/ /\ help = <<>>
                     /\ Len(calls) = 1
                     /\ Some(calls[1].callback) \in {app.commands.v[i].action,
                                                     app.commands.v[i].action_with_result}

\* a run led by the alias h reached the action of hello, registered second
AliasDispatchWitness ==
    /\ pc = "done"
    /\ Len(argv) >= 3
    /\ argv[2] = s_h
    /\ registered(app) = 2
    /\ app.commands.v[2] = cmd_hello
    /\ ~names_command(1, s_h)
    /\ Len(calls) = 1
    /\ calls[1].callback = "action"

\* the app has no action of either kind and the leading token names no
\* registered command
no_match_no_action ==
    /\ pc = "done"
    /\ argv # <<>>
    /\ ~app.action.some
    /\ ~app.action_with_result.some
    /\ no_command_named(lead)

\* C6, as stated: when the leading token names no command and the app has no
\* action, help is displayed and run_with_result returns the failure
\* ActionError::NotFound.
NoActionFails ==
    no_match_no_action => help = app_help /\ result = ActionError_NotFound

\* C6, amended: when the leading token names no command of the app and the
\* app has no action, the help of the app is displayed, no callback is
\* invoked and the run returns Ok(()), so that run does not panic either.
NoActionShowsHelp ==
    no_match_no_action
        => /\ help = app_help
           /\ calls = <<>>
           /\ result = Ok(Unit)
           /\ ~panicked

\* App::new("test").run(["test"]) has returned
NoActionShowsHelpWitness ==
    /\ pc = "done"
    /\ app = App_new(s_test)
    /\ argv = <<s_test>>
    /\ entry = "run"
    /\ help # <<>>

\* C7: on an app with an action of either kind, a run whose leading token
\* names no command and whose tokens after the program name hold "-h" or
\* "--help" at any position displays the help of the app, returns Ok(()) and
\* invokes no callback.
HelpBypassesAction ==
    (/\ pc = "done"
     /\ Len(argv) >= 2
     /\ app.action.some \/ app.action_with_result.some
     /\ no_command_named(argv[2])
     /\ \E i \in 2..Len(argv) : argv[i] \in {help_short, help_long})
        => /\ help = app_help
           /\ calls = <<>>
           /\ result = Ok(Unit)
           /\ ~panicked

\* "-h" stood last, behind a flag token, on an app with a failing result
\* action and commands that the leading token does not name
HelpBypassesActionWitness ==
    /\ pc = "done"
    /\ argv = <<s_test, long_token(s_bool), s_hello, help_short>>
    /\ app.action_with_result = Some("result_err")
    /\ registered(app) > 0
    /\ no_command_named(argv[2])
    /\ entry = "run"

\* what each result-returning callback returns
returned_by(callback) ==
    CASE callback = "result_ok"  -> Ok(Unit)
      [] callback = "result_err" -> Err("test error")

\* C8: the outcome of the result-returning callback that was invoked, the
\* app's own or the resolved command's, is the outcome of run_with_result;
\* the app's result action is the one invoked when the leading token names
\* no command and no help flag is present; run panics exactly when the
\* outcome is a failure, and run_with_result does not panic.
ResultPropagates ==
    pc = "done"
        => /\ \A i \in 1..Len(calls) :
                  calls[i].callback \in ResultActions
                      => result = returned_by(calls[i].callback)
           /\ (/\ argv # <<>>
               /\ app.action_with_result.some
               /\ no_command_named(lead)
               /\ ~has_help_token)
                  => /\ Len(calls) = 1
                     /\ calls[1].callback = app.action_with_result.v
           /\ entry = "run" => (panicked <=> ~result.ok)
           /\ (entry = "run_with_result" /\ argv # <<>>) => ~panicked

\* run panicked on the failure of the result action of a command
ResultPropagatesWitness ==
    /\ pc = "done"
    /\ entry = "run"
    /\ panicked
    /\ ~app.action_with_result.some
    /\ Len(calls) = 1
    /\ calls[1].callback = "result_err"
    /\ result = Err("test error")

(***************************************************************************)
(* Properties of the flag scan and of the accessors, under SpecFlags       *)
(***************************************************************************)

\* the action of the app was invoked once
flag_ran == pc = "done" /\ Len(calls) = 1

\* the Context it received, and the tokens the Context was built from
ctx == calls[1].c

tokens == Tail(argv)

\* the names an action may ask for
Names == {s_bool, s_string, s_int, s_nope}

\* the positions at which a token of the k-th declared flag stands
occurrences(k) ==
    {i \in 1..Len(tokens) : tokens[i] \in tokens_of(declared(app)[k])}

declared_token(t) == t \in FlagTokens(declared(app))

declared_as(name, flag_type) ==
    \E k \in 1..Len(declared(app)) :
        declared(app)[k].name = name /\ declared(app)[k].flag_type = flag_type

is_declared(name) == \E k \in 1..Len(declared(app)) : declared(app)[k].name = name

\* every token of a declared flag that takes a value is immediately followed
\* by a token that is not a token of a declared flag
well_formed ==
    \A k \in 1..Len(declared(app)) :
        declared(app)[k].flag_type # "Bool"
            => \A i \in occurrences(k) :
                   i < Len(tokens) /\ ~declared_token(tokens[i + 1])

\* the number of tokens the k-th declared flag takes out of a well-formed
\* vector: its first occurrence, or all of them when it is multiple, each
\* with its value unless the flag is Bool
taken_by(k) ==
    (IF declared(app)[k].multiple THEN Cardinality(occurrences(k))
     ELSE IF occurrences(k) = {} THEN 0 ELSE 1)
        * (IF declared(app)[k].flag_type = "Bool" THEN 1 ELSE 2)

RECURSIVE taken_upto(_)
taken_upto(k) == IF k = 0 THEN 0 ELSE taken_upto(k - 1) + taken_by(k)

\* the token after the first occurrence of the k-th declared flag is a plain
\* token and is still among the args
follower_stays(k) ==
    LET i == least(occurrences(k))
    IN  (i # 0 /\ i < Len(tokens) /\ ~declared_token(tokens[i + 1]))
            => contains(ctx.args, tokens[i + 1])

bool_flag_is_false_elsewhere ==
    \A name \in Names : ~declared_as(name, "Bool") => bool_flag(ctx, name) = FALSE

\* C3, as stated: for a declared Bool flag bool_flag is true exactly when a
\* token of the flag (name or alias) is among the arguments; it is false for
\* an undeclared name and for a flag of another type; the token after the
\* Bool flag is not consumed.
BoolFlagPresence ==
    flag_ran
        => /\ bool_flag_is_false_elsewhere
           /\ \A k \in 1..Len(declared(app)) :
                  declared(app)[k].flag_type = "Bool"
                      => /\ bool_flag(ctx, declared(app)[k].name) = (occurrences(k) # {})
                         /\ follower_stays(k)

\* C3, amended: bool_flag is false when no token of the declared Bool flag
\* is present, for an undeclared name and for a flag of another type; it is
\* true when a token of the flag is present, provided every token of a
\* declared value-taking flag is immediately followed by a token that is not
\* a flag token (otherwise an earlier declared flag may take the Bool token
\* as its value); under that proviso the Bool flag takes one token out of
\* the args, never the token after it.
BoolFlagReads ==
    flag_ran
        => /\ bool_flag_is_false_elsewhere
           /\ \A name \in Names : bool_flag(ctx, name) \in BOOLEAN
           /\ \A k \in 1..Len(declared(app)) :
                  declared(app)[k].flag_type = "Bool"
                      => /\ occurrences(k) = {}
                             => bool_flag(ctx, declared(app)[k].name) = FALSE
                         /\ well_formed
                             => /\ bool_flag(ctx, declared(app)[k].name)
                                    = (occurrences(k) # {})
                                /\ follower_stays(k)
           /\ well_formed
                  => Len(ctx.args) = Len(tokens) - taken_upto(Len(declared(app)))

\* the alias -b stood before a plain token, after --string and its value
BoolFlagReadsWitness ==
    /\ flag_ran
    /\ declared(app) = <<flag_string, flag_bool_b>>
    /\ tokens = <<long_token(s_string), s_42, short_token(s_b), long_token(s_nope)>>
    /\ bool_flag(ctx, s_bool)
    /\ ctx.args = <<long_token(s_nope)>>

\* the i-th position of a set of positions, in increasing order
nth(S, i) == CHOOSE p \in S : Cardinality({q \in S : q < p}) = i - 1

\* the numbers the value tokens denote
int_of(t) == CASE t = s_42 -> 42 [] t = s_minus7 -> 0 - 7

\* the j-th outcome is the outcome of the value at the j-th occurrence: its
\* number, or an error other than NotFound when the value is not a number
outcome_in_order(vec, S) ==
    \A j \in 1..Len(vec) :
        IF tokens[nth(S, j) + 1] \in {s_42, s_minus7}
        THEN vec[j].ok /\ vec[j].val = int_of(tokens[nth(S, j) + 1])
        ELSE ~vec[j].ok /\ vec[j].err # "NotFound"

followed_by_value(S) ==
    \A i \in S : i < Len(tokens) /\ ~declared_token(tokens[i + 1])

none_found(r) == ~r.panic /\ r.vec = <<Err("NotFound")>>

in_order(r, S) ==
    /\ ~r.panic
    /\ Len(r.vec) = Cardinality(S)
    /\ outcome_in_order(r.vec, S)

\* C4, as stated: a multiple flag supplied k >= 1 times, each occurrence
\* followed by a value, has exactly k outcomes in the vector accessor of its
\* type, in the order of the occurrences; supplied zero times it has exactly
\* one outcome, NotFound.
MultipleOutcomesAlways ==
    flag_ran
        => \A k \in 1..Len(declared(app)) :
               (declared(app)[k].multiple /\ declared(app)[k].flag_type = "Int")
                   => /\ occurrences(k) = {}
                          => none_found(int_flag_vec(ctx, declared(app)[k].name))
                      /\ (occurrences(k) # {} /\ followed_by_value(occurrences(k)))
                          => in_order(int_flag_vec(ctx, declared(app)[k].name),
                                      occurrences(k))

\* C4, amended: the same, provided every token of every declared
\* value-taking flag, not only of the multiple flag, is immediately followed
\* by a token that is not a flag token (otherwise an earlier declared flag
\* takes an occurrence of the multiple flag as its value).
MultipleOutcomes ==
    flag_ran
        => \A k \in 1..Len(declared(app)) :
               (declared(app)[k].multiple /\ declared(app)[k].flag_type = "Int")
                   => /\ occurrences(k) = {}
                          => none_found(int_flag_vec(ctx, declared(app)[k].name))
                      /\ (occurrences(k) # {} /\ well_formed)
                          => in_order(int_flag_vec(ctx, declared(app)[k].name),
                                      occurrences(k))

\* -i --nope --int 42 was read as an error that is not NotFound, then 42
MultipleOutcomesWitness ==
    /\ flag_ran
    /\ declared(app) = <<flag_bool_b, flag_int_multiple>>
    /\ tokens = <<short_token(s_i), long_token(s_nope), long_token(s_int), s_42>>
    /\ Len(int_flag_vec(ctx, s_int).vec) = 2
    /\ ~int_flag_vec(ctx, s_int).vec[1].ok
    /\ int_flag_vec(ctx, s_int).vec[2] = Ok(42)
    /\ ctx.args = <<>>

\* C9: every accessor returns a value for every Context and every name; the
\* vector-valued accessors of a Context built for a scope without flags
\* return too.
AccessorsReturn ==
    flag_ran
        => \A name \in Names :
               /\ ~bool_flag_vec(ctx, name).panic
               /\ ~string_flag_vec(ctx, name).panic
               /\ ~int_flag_vec(ctx, name).panic
               /\ ~uint_flag_vec(ctx, name).panic
               /\ ~float_flag_vec(ctx, name).panic

undefined(r) == ~r.ok /\ r.err = "Undefined"

\* C10: a name that is not declared reads Undefined through string_flag,
\* int_flag, uint_flag and float_flag, whatever the tokens are and also when
\* no flag is declared; a declared name never reads Undefined.
UndeclaredIsUndefined ==
    flag_ran
        => \A name \in Names :
               /\ undefined(string_flag(ctx, name)) <=> ~is_declared(name)
               /\ undefined(int_flag(ctx, name)) <=> ~is_declared(name)
               /\ undefined(uint_flag(ctx, name)) <=> ~is_declared(name)
               /\ undefined(float_flag(ctx, name)) <=> ~is_declared(name)

\* --nope stood among the tokens of a scope that declares other flags
UndeclaredIsUndefinedWitness ==
    /\ flag_ran
    /\ declared(app) # <<>>
    /\ contains(tokens, long_token(s_nope))
    /\ contains(tokens, long_token(s_int))
    /\ undefined(int_flag(ctx, s_nope))
    /\ ~undefined(int_flag(ctx, s_int))

(***************************************************************************)
(* The four flags of single_app_test, under SpecSingle                     *)
(***************************************************************************)

all_declared ==
    /\ Len(declared(app)) = Cardinality(TestFlags)
    /\ \A f \in TestFlags : contains(declared(app), f)

\* the tokens that are neither a flag token nor the value after the token of
\* a flag that takes one, read from left to right
RECURSIVE positional(_)
positional(toks) ==
    IF toks = <<>> THEN <<>>
    ELSE IF Head(toks) = long_token(s_bool) THEN positional(Tail(toks))
    ELSE IF Head(toks) \in {long_token(s_string), long_token(s_int), long_token(s_float)}
    THEN positional(Tail(Tail(toks)))
    ELSE <<Head(toks)>> \o positional(Tail(toks))

\* the token that follows --name
supplied(name) ==
    tokens[(CHOOSE i \in 1..Len(tokens) : tokens[i] = long_token(name)) + 1]

\* the decimals the value tokens denote: 3.5 is 35 * 10^-1
float_of(t) ==
    CASE t = s_3_5    -> [m |-> 35, e |-> 1]
      [] t = s_minus7 -> [m |-> 0 - 7, e |-> 0]

made_joined(tok) ==
    \E p \in FlagTokens(declared(app)) \X EqualValues : tok = joined(p[1], p[2])

\* the flag token and the value it was written from
parts(tok) ==
    CHOOSE p \in FlagTokens(declared(app)) \X EqualValues : tok = joined(p[1], p[2])

\* the vector with every joined token written as two tokens
RECURSIVE two_token(_)
two_token(v) ==
    IF v = <<>> THEN <<>>
    ELSE (IF made_joined(Head(v)) THEN parts(Head(v)) ELSE <<Head(v)>>)
             \o two_token(Tail(v))

\* a value that is itself written like a joined token
looks_joined(x) == x # <<>> /\ x[1] = "-" /\ \E i \in 1..Len(x) : x[i] = "="

\* the first joined token of the string flag (name or alias s) carries x
first_string_value(x) ==
    \E i \in 1..Len(tokens) :
        /\ made_joined(tokens[i])
        /\ parts(tokens[i])[1] \in tokens_of(flag_string_s)
        /\ parts(tokens[i])[2] = x
        /\ \A j \in 1..(i - 1) :
               ~(made_joined(tokens[j])
                     /\ parts(tokens[j])[1] \in tokens_of(flag_string_s))

reads_first_string_value ==
    \A x \in EqualValues :
        (contains(declared(app), flag_string_s) /\ first_string_value(x))
            => string_flag(ctx, s_string) = Ok(x)

\* C2, as stated: for every value, the run on the joined form and the run
\* on the two-token form have the same flag outcomes and the same args, and
\* a joined token is split at its first '=' only.
EqualNotationAlways ==
    flag_ran
        => /\ same_dispatch(App_run_with_result(app, two_token(argv)))
           /\ reads_first_string_value

\* C2, amended: the same for every value that does not both begin with '-'
\* and contain '=' (such a value, written as a token of its own, is split
\* again); the joined token is split at its first '=' for every value.
EqualNotation ==
    flag_ran
        => /\ (\A i \in 1..Len(tokens) :
                   made_joined(tokens[i]) => ~looks_joined(parts(tokens[i])[2]))
                  => same_dispatch(App_run_with_result(app, two_token(argv)))
           /\ reads_first_string_value

\* -s=a=b was read as a=b and --int=42 as 42
EqualNotationWitness ==
    /\ flag_ran
    /\ declared(app) = <<flag_int, flag_string_s>>
    /\ tokens = <<joined(short_token(s_s), s_a_eq_b), joined(long_token(s_int), s_42)>>
    /\ string_flag(ctx, s_string) = Ok(s_a_eq_b)
    /\ int_flag(ctx, s_int) = Ok(42)
    /\ ctx.args = <<>>

(***************************************************************************)
(* The errors of the accessors, under SpecScan and SpecFlags               *)
(***************************************************************************)

\* the types that have a single-value accessor returning a Result
ReadTypes == {"String", "Int", "Uint", "Float"}

\* the single-value accessor of type t
read(c, name, t) ==
    CASE t = "String" -> string_flag(c, name)
      [] t = "Int"    -> int_flag(c, name)
      [] t = "Uint"   -> uint_flag(c, name)
      [] t = "Float"  -> float_flag(c, name)

\* the token after the first occurrence of the k-th declared flag
first_value(k) == tokens[least(occurrences(k)) + 1]

\* in a well-formed vector, the first occurrence of the k-th declared flag
\* carries a value of the declared type
has_typed_value(k) ==
    /\ occurrences(k) # {}
    /\ declared(app)[k].flag_type = "Int" => first_value(k) \in {s_42, s_minus7}

\* C11, as stated: for every argument vector, reading a declared flag
\* through a single-value accessor of another type yields TypeError.
WrongTypeAlways ==
    flag_ran
        => \A k \in 1..Len(declared(app)) :
               \A t \in ReadTypes \ {declared(app)[k].flag_type} :
                   read(ctx, declared(app)[k].name, t) = Err("TypeError")

\* C11, amended: the accessor of another type yields TypeError when the
\* flag was supplied with a value of its declared type; when it was not, the
\* accessor yields the flag's own error: NotFound when the flag is absent,
\* ValueTypeError when its value is malformed.
WrongTypeReads ==
    flag_ran
        => \A k \in 1..Len(declared(app)) :
               \A t \in ReadTypes \ {declared(app)[k].flag_type} :
                   /\ occurrences(k) = {}
                          => read(ctx, declared(app)[k].name, t) = Err("NotFound")
                   /\ (well_formed /\ has_typed_value(k))
                          => read(ctx, declared(app)[k].name, t) = Err("TypeError")
                   /\ (well_formed /\ occurrences(k) # {} /\ ~has_typed_value(k))
                          => read(ctx, declared(app)[k].name, t) = Err("ValueTypeError")
                   /\ (read(ctx, declared(app)[k].name, t) = Err("TypeError"))
                          <=> result_flag_value(ctx, declared(app)[k].name).ok

\* --string 42 was read through int_flag and uint_flag
WrongTypeReadsWitness ==
    /\ flag_ran
    /\ declared(app) = <<flag_int_multiple, flag_string>>
    /\ tokens = <<long_token(s_string), s_42>>
    /\ int_flag(ctx, s_string) = Err("TypeError")
    /\ uint_flag(ctx, s_string) = Err("TypeError")
    /\ string_flag(ctx, s_int) = Err("NotFound")

\* the accessor of the declared type of the k-th declared flag
read_declared(k) == read(ctx, declared(app)[k].name, declared(app)[k].flag_type)

\* the vector accessor of type t
read_vec(c, name, t) ==
    CASE t = "Bool"   -> bool_flag_vec(c, name)
      [] t = "String" -> string_flag_vec(c, name)
      [] t = "Int"    -> int_flag_vec(c, name)
      [] t = "Uint"   -> uint_flag_vec(c, name)
      [] t = "Float"  -> float_flag_vec(c, name)

read_vec_declared(k) ==
    read_vec(ctx, declared(app)[k].name, declared(app)[k].flag_type)

\* no token of the k-th declared flag is among the args
none_left(k) ==
    \A i \in 1..Len(ctx.args) : ctx.args[i] \notin tokens_of(declared(app)[k])

\* C12: a declared flag that takes a value reads NotFound through the
\* accessor of its declared type when no token of the flag is among the
\* arguments, and when its one token is the last token, so that no value
\* follows; in that case nothing more is recorded for the flag, and its
\* token is not among the args.
MissingIsNotFound ==
    flag_ran
        => \A k \in 1..Len(declared(app)) :
               declared(app)[k].flag_type # "Bool"
                   => /\ occurrences(k) = {}
                          => read_declared(k) = Err("NotFound")
                      /\ (tokens # <<>> /\ occurrences(k) = {Len(tokens)})
                          => /\ read_declared(k) = Err("NotFound")
                             /\ read_vec_declared(k) = Returned(<<Err("NotFound")>>)
                             /\ none_left(k)

\* --string stood last, behind a plain token, and no token of int was there
MissingIsNotFoundWitness ==
    /\ flag_ran
    /\ declared(app) = <<flag_string, flag_int_multiple>>
    /\ tokens = <<s_42, long_token(s_string)>>
    /\ string_flag(ctx, s_string) = Err("NotFound")
    /\ int_flag(ctx, s_int) = Err("NotFound")
    /\ ctx.args = <<s_42>>

\* the token after the j-th occurrence of the k-th declared flag
value_token(k, j) == tokens[nth(occurrences(k), j) + 1]

numeric(t) == t \in {s_42, s_minus7}

\* C13: in a vector where every value-taking flag is followed by a value, a
\* declared Int flag whose value is not a number reads ValueTypeError: through
\* int_flag when the first occurrence has the malformed value, and in
\* int_flag_vec at the position of every occurrence with a malformed value,
\* while the occurrences with a number keep their values.
MalformedValueReads ==
    (flag_ran /\ well_formed)
        => \A k \in 1..Len(declared(app)) :
               (declared(app)[k].flag_type = "Int" /\ occurrences(k) # {})
                   => LET name == declared(app)[k].name
                          vec  == int_flag_vec(ctx, name).vec
                      IN  /\ ~numeric(value_token(k, 1))
                              => int_flag(ctx, name) = Err("ValueTypeError")
                          /\ \A j \in 1..Len(vec) :
                                 IF numeric(value_token(k, j))
                                 THEN vec[j] = Ok(int_of(value_token(k, j)))
                                 ELSE vec[j] = Err("ValueTypeError")

(***************************************************************************)
(* Claims about the builder, checked under Spec                            *)
(***************************************************************************)

both_kinds(self) == self.action.some /\ self.action_with_result.some

\* the builder call was refused: the builder unwinds and the app is as it was
refused == panicked' /\ pc' = "aborted" /\ app' = app

\* what a step of the builder does to the two action fields
one_kind_step ==
    /\ ~both_kinds(app)
    /\ ~both_kinds(app')
    /\ \A a \in ResultActions :
           action_with_result(a)
               => IF app.action.some THEN refused
                  ELSE app'.action_with_result = Some(a) /\ pc' = "build"
    /\ \A a \in PlainActions :
           action(a)
               => IF app.action_with_result.some THEN refused
                  ELSE app'.action = Some(a) /\ pc' = "build"
    /\ (pc = "build" /\ app.action.some)
           => \A a \in PlainActions : ENABLED (action(a) /\ pc' = "build")
    /\ (pc = "build" /\ app.action_with_result.some)
           => \A a \in ResultActions :
                  ENABLED (action_with_result(a) /\ pc' = "build")

\* C14: the two action kinds are never both set; a call that sets the kind
\* that is not set while the other one is set is refused (the builder
\* panics and the app is unchanged), whichever kind came first; a call that
\* sets the kind that is already set is accepted and its callback replaces
\* the earlier one.
OneActionKind == [][one_kind_step]_vars

\* App::action was called first and App::action_with_result was refused
OneActionKindWitness ==
    /\ pc = "aborted"
    /\ panicked
    /\ registered(app) = 0
    /\ app.action.some
    /\ ~app.action_with_result.some

\* the tokens a command is selected by: its name and its aliases
labels(c) == {c.name} \cup {c.alias[k] : k \in 1..Len(c.alias)}

name_registered(self, name) ==
    \E i \in 1..registered(self) : self.commands.v[i].name = name

unique_names(self) ==
    \A i, j \in 1..registered(self) :
        i # j => self.commands.v[i].name # self.commands.v[j].name

\* C15, as stated: no two registered sibling commands share a name or an
\* alias.
UniqueLabelsAlways ==
    \A i, j \in 1..registered(app) :
        i # j => labels(app.commands.v[i]) \cap labels(app.commands.v[j]) = {}

\* what a step of the builder does to the registered commands
unique_names_step ==
    /\ unique_names(app)
    /\ unique_names(app')
    /\ \A c \in Commands :
           command(c)
               => IF name_registered(app, c.name) THEN refused
                  ELSE /\ commands_of(app') = Append(commands_of(app), c)
                       /\ pc' = "build"
    /\ pc = "build"
           => \A c \in Commands :
                  ~name_registered(app, c.name)
                      => ENABLED (command(c) /\ pc' = "build")

\* C15: no two registered sibling commands share a name; registering a
\* command whose name is the name of a registered command is refused (the
\* builder panics and the app is unchanged); a command with a new name is
\* registered behind the others, also when its name or alias is the name or
\* an alias of a registered command.
UniqueNames == [][unique_names_step]_vars

\* hello was registered and a second command named hello was refused
UniqueNamesWitness ==
    /\ pc = "aborted"
    /\ panicked
    /\ commands_of(app) = <<cmd_hello>>
    /\ ~app.action.some
    /\ ~app.action_with_result.some

(***************************************************************************)
(* Claims about the positional args, checked under SpecScan                *)
(***************************************************************************)

RECURSIVE is_subsequence(_, _)
\* a is b with some of its elements left out
is_subsequence(a, b) ==
    IF a = <<>> THEN TRUE
    ELSE IF b = <<>> THEN FALSE
    ELSE IF Head(a) = Head(b) THEN is_subsequence(Tail(a), Tail(b))
    ELSE is_subsequence(a, Tail(b))

RECURSIVE without(_, _, _)
\* the elements of s from position i on whose positions are not in D
without(s, D, i) ==
    IF i > Len(s) THEN <<>>
    ELSE (IF i \in D THEN <<>> ELSE <<s[i]>>) \o without(s, D, i + 1)

\* the occurrences the scan of the k-th declared flag takes: all of them
\* when the flag is multiple, the first one otherwise
scanned(k) ==
    IF declared(app)[k].multiple \/ occurrences(k) = {} THEN occurrences(k)
    ELSE {least(occurrences(k))}

\* the positions of the tokens taken and of the values behind them
taken ==
    UNION {scanned(k) \cup (IF declared(app)[k].flag_type = "Bool" THEN {}
                            ELSE {i + 1 : i \in scanned(k)})
           : k \in 1..Len(declared(app))}

at_most_once(k) == declared(app)[k].multiple \/ Cardinality(occurrences(k)) <= 1

SingleTokenSelectsNone ==
    (pc = "done" /\ Len(argv) = 1)
        => same_dispatch(run_action("App", app, argv, Tail(argv)))

\* the registered commands the leading token names, by name or by alias
named_by_lead == {i \in 1..registered(app) : names_command(i, argv[2])}

\* the Context the app's own action is given
app_context == Context_new(Tail(argv), app.flags)

\* the first command named is run on the tokens behind the command token;
\* the help of the app is not printed and no callback is given the Context
\* of the app
first_named_runs(i) ==
    /\ same_dispatch(Command_run_with_result(app.commands.v[i],
                                             SubSeq(argv, 3, Len(argv))))
    /\ \A j \in 1..Len(help) : help[j].node = "Command"
    /\ \A j \in 1..Len(calls) : calls[j].c # app_context

\* no command is run: the app prints its help, or its action is invoked on
\* all the tokens behind the program name
app_runs ==
    /\ same_dispatch(run_action("App", app, argv, Tail(argv)))
    /\ \A j \in 1..Len(help) : help[j].node = "App"
    /\ \A j \in 1..Len(calls) :
           /\ calls[j].c.args = Tail(argv)
           /\ Some(calls[j].callback) \in {app.action, app.action_with_result}
    /\ ((app.action.some \/ app.action_with_result.some) /\ ~has_help_token)
           => Len(calls) = 1

\* C18: with a leading token behind the program name, the first registered
\* command whose name or alias is the leading token is run on the tokens
\* behind it, and neither the app's action nor the app's help check takes
\* part; when the leading token is the name or alias of no command (a prefix
\* of a name is not a match) the app's own action is given every token
\* behind the program name.
FirstMatchWins ==
    (pc = "done" /\ Len(argv) >= 2)
        => IF named_by_lead # {} THEN first_named_runs(least(named_by_lead))
           ELSE app_runs

\* h and hello (alias h) are registered in this order and the leading token
\* is h: the command h is run on the token behind it
FirstMatchWinsWitness ==
    /\ pc = "done"
    /\ commands_of(app) = <<cmd_h, cmd_hello>>
    /\ app.action.some
    /\ argv = <<s_test, s_h, s_hello>>
    /\ Len(calls) = 1
    /\ calls[1].callback = "result_ok"
    /\ calls[1].c.args = <<s_hello>>

(***************************************************************************)
(* SpecErrors: an app given an action of either kind, flags that take a    *)
(* value and the command hello, run on every short vector of flag tokens,  *)
(* a number, a word and the name of the command                            *)
(***************************************************************************)

ErrorFlags == {flag_string, flag_int, flag_float}

\* the number of tokens after the program name
MaxErrorArgs == 3

ErrorArgvs(self) ==
    {<<s_test>> \o r :
        r \in SeqsUpTo(FlagTokens(declared(self)) \cup {s_x, s_42, s_hello},
                       MaxErrorArgs)}

InitErrors ==
    /\ app = App_new(s_test)
    /\ pc = "build"
    /\ panicked = FALSE
    /\ NotRun

NextErrors ==
    \/ pc = "build" /\ \E a \in {"action"} : action(a)
    \/ pc = "build" /\ \E a \in ResultActions : action_with_result(a)
    \/ pc = "build" /\ \E c \in {d \in {cmd_hello} : registered(app) = 0} : command(c)
    \/ pc = "build" /\ \E f \in Declarable(app, ErrorFlags, MaxFlags) : flag(f)
    \/ pc = "build" /\ \E args \in ErrorArgvs(app) : run_with_result(args)
    \/ pc = "build" /\ \E args \in ErrorArgvs(app) : run(args)

SpecErrors == InitErrors /\ [][NextErrors]_vars

\* the app has an action, the token compared with the commands names none of
\* them and no help token is among the arguments
reaches_action ==
    /\ pc = "done"
    /\ app.action.some \/ app.action_with_result.some
    /\ no_command_named(lead)
    /\ ~has_help_token

\* what the action reads for the k-th declared flag is a value or an error
\* handed back by the accessor
read_is_returned(c, k) ==
    LET r == read(c, declared(app)[k].name, declared(app)[k].flag_type)
    IN  r.ok \/ r.err \in {"NotFound", "ValueTypeError"}

\* some declared flag reads the error e
reads_error(c, e) ==
    \E k \in 1..Len(declared(app)) :
        read(c, declared(app)[k].name, declared(app)[k].flag_type) = Err(e)

\* C19: when the app has an action of either kind, the leading token names
\* no command and no help token is present, the action is invoked exactly
\* once and its outcome is the outcome of the run, whatever the scan
\* recorded for the declared flags: a missing flag, a missing value and a
\* malformed value are errors the accessors hand to the action.
ErrorsNeverAbort ==
    reaches_action
        => /\ Len(calls) = 1
           /\ help = <<>>
           /\ IF app.action.some
              THEN calls[1].callback = app.action.v /\ result = Ok(Unit)
              ELSE /\ calls[1].callback = app.action_with_result.v
                   /\ result = returned_by(app.action_with_result.v)
           /\ panicked <=> (entry = "run" /\ ~result.ok)
           /\ calls[1].c = Context_new(Tail(argv), app.flags)
           /\ \A k \in 1..Len(declared(app)) : read_is_returned(calls[1].c, k)

\* the action was invoked on a Context in which int has a malformed value
\* and float no value
ErrorsNeverAbortWitness ==
    /\ reaches_action
    /\ declared(app) = <<flag_int, flag_float>>
    /\ Tail(argv) = <<long_token(s_int), s_x, long_token(s_float)>>
    /\ Len(calls) = 1
    /\ int_flag(calls[1].c, s_int) = Err("ValueTypeError")
    /\ float_flag(calls[1].c, s_float) = Err("NotFound")
    /\ calls[1].c.args = <<>>

(***************************************************************************)
(* Claims about a flag token in the place of a value, checked under        *)
(* SpecScan                                                                *)
(***************************************************************************)

\* the first token of the k-th declared flag, which takes a value, is
\* immediately followed by --name of the j-th declared flag
followed_by_flag(k, j) ==
    /\ k # j
    /\ declared(app)[k].flag_type # "Bool"
    /\ occurrences(k) # {}
    /\ least(occurrences(k)) < Len(tokens)
    /\ first_value(k) = long_token(declared(app)[j].name)

\* the k-th declared flag has the flag token behind it as its raw value: a
\* String flag reads the token, a numeric flag a malformed value
reads_follower(k) ==
    IF declared(app)[k].flag_type = "String"
    THEN read_declared(k) = Ok(first_value(k))
    ELSE read_declared(k) = Err("ValueTypeError")

\* the j-th declared flag is not matched at the token behind the k-th: when
\* that token is its only one, it reads as a flag that is not there
not_matched_there(k, j) ==
    occurrences(j) = {least(occurrences(k)) + 1}
        => IF declared(app)[j].flag_type = "Bool"
           THEN bool_flag(ctx, declared(app)[j].name) = FALSE
           ELSE read_declared(j) = Err("NotFound")

\* no flag declared before the k-th takes a value out of the arguments
none_scanned_before(k) ==
    \A m \in 1..(k - 1) :
        declared(app)[m].flag_type = "Bool" \/ occurrences(m) = {}

\* C20, as stated: a flag that takes a value and is followed by --name of
\* another declared flag has that token as its raw value, and the other
\* flag is not matched there, in whatever order the two are declared.
ConsumesFollowerAlways ==
    flag_ran
        => \A k, j \in 1..Len(declared(app)) :
               followed_by_flag(k, j)
                   => reads_follower(k) /\ not_matched_there(k, j)

\* C20: the same, for a flag that is declared before the flag whose token
\* follows it, no flag declared earlier taking a value out of the
\* arguments: the flags are scanned in declaration order, and a flag
\* scanned earlier has taken its tokens before the flag is looked for.
ConsumesFollower ==
    flag_ran
        => \A k, j \in 1..Len(declared(app)) :
               (followed_by_flag(k, j) /\ k < j /\ none_scanned_before(k))
                   => reads_follower(k) /\ not_matched_there(k, j)

\* --string --int 42 with string declared first: string reads --int, int is
\* not found and 42 is left among the args
ConsumesFollowerWitness ==
    /\ flag_ran
    /\ declared(app) = <<flag_string, flag_int_multiple>>
    /\ tokens = <<long_token(s_string), long_token(s_int), s_42>>
    /\ string_flag(ctx, s_string) = Ok(long_token(s_int))
    /\ int_flag(ctx, s_int) = Err("NotFound")
    /\ ctx.args = <<s_42>>

====
